---- MODULE Spec2Model ----
(***************************************************************************)
(* Pickles Benchmark: the run controller of src/App.tsx (startBenchmark,   *)
(* its frame callback loop, updatePhysics, finish) and the render surface  *)
(* of components/BenchmarkCanvas (src/unnamed/part_000).                   *)
(*                                                                         *)
(* Abstractions.                                                           *)
(*  - A body's position, velocity, mass and size are floating point and    *)
(*    are not represented.  The body store is kept as a run-length         *)
(*    encoding of the array bodiesRef.current: a sequence of batches, each *)
(*    batch standing for `count` consecutive bodies pushed by one call of  *)
(*    addParticles, with the run that created them and the number of       *)
(*    integration passes applied to them.                                  *)
(*  - Times are integer milliseconds (Date.now()).  fps values are exact   *)
(*    rationals [n |-> , d |-> ] in lowest terms; the code computes them   *)
(*    in IEEE doubles.                                                     *)
(*  - requestAnimationFrame ids are abstracted to what the code can        *)
(*    observe of them: animationFrameIdRef is "null", "queued" (names a    *)
(*    callback still in the queue) or "stale" (names a callback that has   *)
(*    fired or was cancelled); rafQueue is the number of queued callbacks. *)
(***************************************************************************)
EXTENDS Integers, Sequences, FiniteSets, TLC

VARIABLES
    \* components/BenchmarkCanvas
    canvasEl,            \* canvasRef.current is a canvas element
    ctxRef,              \* ctxRef.current is a 2D context
    effectRan,           \* the mount effect of BenchmarkCanvas has run
    \* App: React state
    isRunning, showResults,
    timer, fps, particleCount, progress,
    history, finalScore, peakParticles, avgFps,
    \* App: refs
    historyRef, bodiesRef, animationFrameIdRef, totalCalcsRef,
    \* closure variables of the run created by startBenchmark
    startTime, endTime, lastMetricTime, frameCount,
    \* environment
    now,                 \* last value read from Date.now()
    rafQueue,            \* number of queued requestAnimationFrame callbacks
    consoleErrors,       \* number of console.error calls made
    runId,               \* number of runs started (identity of new bodies)
    stopRequestedFor,    \* run the user has asked to stop (0: none)
    lastOp               \* outcome of the last handler or callback executed

canvasVars == <<canvasEl, ctxRef, effectRan>>
hudVars == <<timer, fps, particleCount, progress>>
resultVars == <<history, finalScore, peakParticles, avgFps>>
refVars == <<historyRef, bodiesRef, totalCalcsRef>>
closureVars == <<startTime, endTime, lastMetricTime, frameCount>>
rafVars == <<animationFrameIdRef, rafQueue>>

vars == <<canvasEl, ctxRef, effectRan, isRunning, showResults, timer, fps,
          particleCount, progress, history, finalScore, peakParticles, avgFps,
          historyRef, bodiesRef, animationFrameIdRef, totalCalcsRef,
          startTime, endTime, lastMetricTime, frameCount,
          now, rafQueue, consoleErrors, runId, stopRequestedFor, lastOp>>

-----------------------------------------------------------------------------
(* Bounds of the model *)

\* runs that may be started in one behaviour
MaxRuns == 2
\* frames a run may have been given before its first sample (TickSpec)
MaxTickFrames == 28
\* console.error calls after which a failing start is no longer explored
MaxErrors == 2

\* milliseconds by which Date.now() has advanced when a frame callback reads it
Deltas == {300, 500}

-----------------------------------------------------------------------------
(* Program constants *)

\* import { TEST_DURATION_MS } from './constants'
TEST_DURATION_MS == 1000
\* addParticles(2500)
InitialPopulation == 2500
\* now > lastMetricTime + 500
SampleIntervalMs == 500
\* len > 8000 ? Math.ceil(len / 4000) : 1
StrideThreshold == 8000
StrideDivisor == 4000
\* currentFps > 45 ? 1000 : (currentFps < 15 ? 100 : 400)
FpsHigh == 45
FpsLow == 15
RampHigh == 1000
RampLow == 100
RampMid == 400

-----------------------------------------------------------------------------
(* Arithmetic on non-negative rationals *)

RECURSIVE GCD(_, _)
GCD(a, b) == IF b = 0 THEN a ELSE GCD(b, a % b)

LCM(a, b) == (a \div GCD(a, b)) * b

\* the rational n/d (d > 0) in lowest terms
Frac(n, d) == LET g == GCD(n, d) IN [n |-> n \div g, d |-> d \div g]

FracAdd(x, y) == LET l == LCM(x.d, y.d)
                 IN Frac(x.n * (l \div x.d) + y.n * (l \div y.d), l)

\* x > k and x < k for a rational x and an integer k
FracGt(x, k) == x.n > k * x.d
FracLt(x, k) == x.n < k * x.d

\* Math.round(x) for x >= 0: floor(x + 1/2)
MathRound(x) == (2 * x.n + x.d) \div (2 * x.d)

\* <<floor(a*b/c), (a*b) % c>> computed without forming a*b (binary method)
RECURSIVE MulDiv(_, _, _)
MulDiv(a, b, c) ==
    IF b = 0 THEN <<0, 0>>
    ELSE LET h == MulDiv(a, b \div 2, c)
             odd == b % 2
             r2 == 2 * h[2] + odd * (a % c)
         IN <<2 * h[1] + odd * (a \div c) + r2 \div c, r2 % c>>


-----------------------------------------------------------------------------
(* Body store: bodiesRef.current *)

RECURSIVE BodyCount(_)
\* bodies.length
BodyCount(bodies) ==
    IF bodies = <<>> THEN 0 ELSE Head(bodies).count + BodyCount(Tail(bodies))

\* a bug: the store is assigned the new bodies instead of being pushed to
addParticlesAssign(bodies, count, run) ==
    <<[count |-> count, run |-> run, steps |-> 0]>>

\* addParticles(count): pushes `count` new bodies at the end of the store
addParticles(bodies, count, run) ==
    IF count > 0
    THEN Append(bodies, [count |-> count, run |-> run, steps |-> 0])
    ELSE bodies

-----------------------------------------------------------------------------
(* updatePhysics *)

\* a bug: len >= 8000
strideInclusive(len) ==
    IF len >= StrideThreshold
    THEN (len + StrideDivisor - 1) \div StrideDivisor
    ELSE 1

\* const stride = len > 8000 ? Math.ceil(len / 4000) : 1
stride(len) ==
    IF len > StrideThreshold
    THEN (len + StrideDivisor - 1) \div StrideDivisor
    ELSE 1

\* calcs++ executed by: for (let j = i + 1; j < len; j += stride)
innerLoopCalcs(i, len, s) ==
    IF i + 1 < len THEN ((len - (i + 1)) + (s - 1)) \div s ELSE 0

RECURSIVE outerLoopCalcs(_, _, _, _)
\* calcs accumulated by the iterations lo..hi of: for (let i = 0; i < len; i++)
outerLoopCalcs(lo, hi, len, s) ==
    IF lo > hi THEN 0
    ELSE IF lo = hi THEN innerLoopCalcs(lo, len, s)
    ELSE LET mid == (lo + hi) \div 2
         IN outerLoopCalcs(lo, mid, len, s) + outerLoopCalcs(mid + 1, hi, len, s)

\* the value updatePhysics returns for a store of len bodies
updatePhysicsCalcs(len) == outerLoopCalcs(0, len - 1, len, stride(len))

\* a bug: the loop bound misses the bodies pushed last, so they are not integrated
updatePhysicsBodiesStale(bodies) ==
    [k \in 1..Len(bodies) |->
        IF k = Len(bodies) /\ k > 1 THEN bodies[k]
        ELSE [bodies[k] EXCEPT !.steps = @ + 1]]

\* the store after updatePhysics: every body integrated once, none added or removed
updatePhysicsBodies(bodies) ==
    [k \in 1..Len(bodies) |-> [bodies[k] EXCEPT !.steps = @ + 1]]

\* const calcs = updatePhysics(0.5); totalCalcsRef.current += calcs;
physics(bodies) ==
    /\ bodiesRef' = updatePhysicsBodies(bodies)
    /\ totalCalcsRef' = totalCalcsRef + updatePhysicsCalcs(BodyCount(bodies))

-----------------------------------------------------------------------------
(* Sampling and ramping *)

\* now > lastMetricTime + 500
sampleDue(t, last) == t > last + SampleIntervalMs

\* const currentFps = (frameCount * 1000) / (now - lastMetricTime)
currentFpsOf(frames, t, last) == Frac(frames * 1000, t - last)

\* a bug: currentFps >= 45
rampAmountInclusive(currentFps) ==
    IF ~FracLt(currentFps, FpsHigh) THEN RampHigh
    ELSE IF FracLt(currentFps, FpsLow) THEN RampLow
    ELSE RampMid

\* const rampAmount = currentFps > 45 ? 1000 : (currentFps < 15 ? 100 : 400)
rampAmount(currentFps) ==
    IF FracGt(currentFps, FpsHigh) THEN RampHigh
    ELSE IF FracLt(currentFps, FpsLow) THEN RampLow
    ELSE RampMid

\* a bug: unshift instead of push
unshiftSample(data, sample) == <<sample>> \o data

\* historyRef.current.push(sample)
pushSample(data, sample) == Append(data, sample)

\* a bug: now > endTime
runOverStrict(t, end) == t > end

\* if (now >= endTime)
runOver(t, end) == t >= end

\* parseFloat((elapsed/1000).toFixed(1)), in tenths of a second; a value halfway
\* between two tenths goes to either, as its binary representation falls
timerValues(elapsed) ==
    IF elapsed % 100 = 50
    THEN {elapsed \div 100, elapsed \div 100 + 1}
    ELSE {(elapsed + 50) \div 100}

-----------------------------------------------------------------------------
(* finish *)

RECURSIVE fpsSum(_)
\* data.reduce((acc, curr) => acc + curr.fps, 0)
fpsSum(data) ==
    IF data = <<>> THEN [n |-> 0, d |-> 1]
    ELSE FracAdd(Head(data).fps, fpsSum(Tail(data)))

\* const avg = data.length > 0 ? data.reduce(...) / data.length : 0
finishAvg(data) ==
    IF Len(data) > 0
    THEN LET s == fpsSum(data) IN Frac(s.n, s.d * Len(data))
    ELSE [n |-> 0, d |-> 1]

\* a bug: the score is computed from the rounded average that is displayed
finishScoreRounded(total, avg) ==
    MulDiv(total, MathRound(avg), 6000)[1] \div 1000

\* Math.floor((totalCalcsRef.current / 100000) * (avg / 60))
finishScore(total, avg) ==
    MulDiv(total, avg.n, avg.d * 6000)[1] \div 1000

\* finish(), given the refs as the caller left them
finish(data, bodies, total, idRef, queue) ==
    /\ rafQueue' = IF idRef = "queued" THEN queue - 1 ELSE queue
    /\ animationFrameIdRef' = IF idRef = "queued" THEN "stale" ELSE idRef
    /\ isRunning' = FALSE
    /\ showResults' = TRUE
    /\ history' = data
    /\ avgFps' = MathRound(finishAvg(data))
    /\ peakParticles' = BodyCount(bodies)
    /\ finalScore' = finishScore(total, finishAvg(data))

-----------------------------------------------------------------------------
(* Initial state: App and BenchmarkCanvas rendered and committed, effects pending *)

Init ==
    /\ canvasEl = TRUE
    /\ ctxRef = FALSE
    /\ effectRan = FALSE
    /\ isRunning = FALSE
    /\ showResults = FALSE
    /\ timer = 0
    /\ fps = 0
    /\ particleCount = 0
    /\ progress = [n |-> 0, d |-> 1]
    /\ history = <<>>
    /\ finalScore = 0
    /\ peakParticles = 0
    /\ avgFps = 0
    /\ historyRef = <<>>
    /\ bodiesRef = <<>>
    /\ animationFrameIdRef = "null"
    /\ totalCalcsRef = 0
    /\ startTime = 0
    /\ endTime = 0
    /\ lastMetricTime = 0
    /\ frameCount = 0
    /\ now = 0
    /\ rafQueue = 0
    /\ consoleErrors = 0
    /\ runId = 0
    /\ stopRequestedFor = 0
    /\ lastOp = "render"

-----------------------------------------------------------------------------
(* components/BenchmarkCanvas: the mount effect.  canvas.getContext('2d')   *)
(* returns a context or null; ctxRef.current is assigned nowhere else.      *)

BenchmarkCanvasEffect ==
    /\ ~effectRan
    /\ effectRan' = TRUE
    /\ \E got \in BOOLEAN :
          /\ ctxRef' = (canvasEl /\ got)
          /\ consoleErrors' = IF canvasEl /\ ~got THEN consoleErrors + 1
                              ELSE consoleErrors
    /\ lastOp' = "effect"
    /\ UNCHANGED <<canvasEl, isRunning, showResults, hudVars, resultVars, refVars,
                   closureVars, rafVars, now, runId, stopRequestedFor>>

\* a bug: the guard on isRunning is missing
guardMissing == FALSE

\* if (isRunning) return;
alreadyRunning == isRunning

\* a bug: the surface is not checked
surfaceCheckMissing == FALSE

\* const { canvas, ctx } = canvasRefs.current || {}; if (!canvas || !ctx)
surfaceNotReady == ~canvasEl \/ ~ctxRef

\* a bug: the store is not cleared
keptStore == bodiesRef

\* bodiesRef.current = []
clearedStore == <<>>

-----------------------------------------------------------------------------
(* startBenchmark: onClick of "Run Benchmark" and of "Bench Again" *)

startBenchmark ==
    IF alreadyRunning
    THEN /\ lastOp' = "start_ignored"
         /\ UNCHANGED <<canvasVars, isRunning, showResults, hudVars, resultVars,
                        refVars, closureVars, rafVars, now, consoleErrors, runId,
                        stopRequestedFor>>
    ELSE IF surfaceNotReady
    THEN /\ consoleErrors < MaxErrors
         /\ consoleErrors' = consoleErrors + 1
         /\ lastOp' = "start_rejected"
         /\ UNCHANGED <<canvasVars, isRunning, showResults, hudVars, resultVars,
                        refVars, closureVars, rafVars, now, runId, stopRequestedFor>>
    ELSE /\ runId < MaxRuns
         /\ runId' = runId + 1
         /\ isRunning' = TRUE
         /\ showResults' = FALSE
         /\ historyRef' = <<>>
         /\ totalCalcsRef' = 0
         /\ bodiesRef' = addParticles(clearedStore, InitialPopulation, runId + 1)
         /\ startTime' = now
         /\ endTime' = now + TEST_DURATION_MS
         /\ lastMetricTime' = now
         /\ frameCount' = 0
         /\ rafQueue' = rafQueue + 1
         /\ animationFrameIdRef' = "queued"
         /\ lastOp' = "started"
         /\ UNCHANGED <<canvasVars, hudVars, resultVars, now, consoleErrors,
                        stopRequestedFor>>

-----------------------------------------------------------------------------
(* loop: the frame callback.  It reads Date.now() once, d ms after the last *)
(* reading.                                                                 *)

\* animationFrameIdRef once the oldest queued callback has been taken to run
idAfterFire(idRef, queue) ==
    IF idRef = "queued" /\ queue - 1 = 0 THEN "stale" ELSE idRef

loopAt(t) ==
    LET queue0 == rafQueue - 1
        id0 == idAfterFire(animationFrameIdRef, rafQueue)
    IN
    IF ~ctxRef
    THEN \* if (!canvasRefs.current?.ctx) { requestAnimationFrame(loop); return; }
         /\ rafQueue' = queue0 + 1
         /\ animationFrameIdRef' = "queued"
         /\ lastOp' = "waiting"
         /\ UNCHANGED <<isRunning, showResults, hudVars, resultVars, refVars,
                        closureVars>>
    ELSE
    LET elapsed == t - startTime
        due == sampleDue(t, lastMetricTime)
        len0 == BodyCount(bodiesRef)
        currentFps == currentFpsOf(frameCount, t, lastMetricTime)
        data1 == IF due
                 THEN pushSample(historyRef,
                             [time |-> elapsed, fps |-> currentFps, particles |-> len0])
                 ELSE historyRef
        bodies1 == IF due
                   THEN addParticles(bodiesRef, rampAmount(currentFps), runId)
                   ELSE bodiesRef
        frames1 == IF due THEN 0 ELSE frameCount
    IN
    \* 1. load ramping
    /\ IF due
       THEN /\ fps' = MathRound(currentFps)
            /\ timer' \in timerValues(elapsed)
            /\ progress' = Frac(elapsed * 100, TEST_DURATION_MS)
            /\ particleCount' = len0
       ELSE UNCHANGED hudVars
    /\ historyRef' = data1
    /\ lastMetricTime' = IF due THEN t ELSE lastMetricTime
    /\ UNCHANGED <<startTime, endTime>>
    /\ IF runOver(t, endTime)
       THEN \* finish(); return;
            /\ finish(data1, bodies1, totalCalcsRef, id0, queue0)
            /\ bodiesRef' = bodies1
            /\ frameCount' = frames1
            /\ lastOp' = "finished"
            /\ UNCHANGED totalCalcsRef
       ELSE \* 2. physics, 3. render, next frame
            /\ frameCount' = frames1 + 1
            /\ physics(bodies1)
            /\ rafQueue' = queue0 + 1
            /\ animationFrameIdRef' = "queued"
            /\ lastOp' = "tick"
            /\ UNCHANGED <<isRunning, showResults, resultVars>>

loop ==
    /\ rafQueue > 0
    /\ \E d \in Deltas :
          /\ now' = now + d
          /\ loopAt(now + d)
    /\ UNCHANGED <<canvasVars, consoleErrors, runId, stopRequestedFor>>

-----------------------------------------------------------------------------
(* The user asks to stop the run in progress.  While isRunning the page     *)
(* renders the header and the telemetry footer only: no control is bound to *)
(* finish, so the request reaches no handler and no program state changes.  *)

cancel ==
    /\ isRunning
    /\ stopRequestedFor # runId
    /\ stopRequestedFor' = runId
    /\ lastOp' = "stop_requested"
    /\ UNCHANGED <<canvasVars, isRunning, showResults, hudVars, resultVars, refVars,
                   closureVars, rafVars, now, consoleErrors, runId>>

-----------------------------------------------------------------------------

Next ==
    \/ BenchmarkCanvasEffect
    \/ startBenchmark
    \/ loop
    \/ cancel

Spec == Init /\ [][Next]_vars

\* A queued frame callback runs and reads the clock.  These are exactly the
\* steps of loop: no other action changes now, and loop always does.
frameFires == rafQueue > 0 /\ \E d \in Deltas : now' = now + d

\* the browser runs a queued animation frame callback eventually
LiveSpec == Spec /\ WF_now(frameFires)

-----------------------------------------------------------------------------
(* One tick as a function of the frames counted so far.  A run is taken up  *)
(* after its first k frames, all delivered before the first sample was due  *)
(* (the last of them read the clock one delta after the start), and is      *)
(* followed to its end.                                                     *)

InitTick ==
    /\ canvasEl = TRUE /\ ctxRef = TRUE /\ effectRan = TRUE
    /\ isRunning = TRUE /\ showResults = FALSE
    /\ timer = 0 /\ fps = 0 /\ particleCount = 0 /\ progress = [n |-> 0, d |-> 1]
    /\ history = <<>> /\ finalScore = 0 /\ peakParticles = 0 /\ avgFps = 0
    /\ historyRef = <<>>
    /\ \E k \in 1..MaxTickFrames :
          /\ frameCount = k
          /\ bodiesRef = <<[count |-> InitialPopulation, run |-> 1, steps |-> k]>>
          /\ totalCalcsRef = k * updatePhysicsCalcs(InitialPopulation)
    /\ startTime = 0
    /\ endTime = TEST_DURATION_MS
    /\ lastMetricTime = 0
    /\ now \in {d \in Deltas : d <= SampleIntervalMs}
    /\ animationFrameIdRef = "queued"
    /\ rafQueue = 1
    /\ consoleErrors = 0
    /\ runId = 1
    /\ stopRequestedFor = 0
    /\ lastOp = "tick"

TickSpec == InitTick /\ [][loop]_vars

-----------------------------------------------------------------------------
(* finish() as a function of the history and of totalCalcs: the state is    *)
(* the one in which loop, having read now >= endTime, calls finish().       *)

ScoreTotals == {0, 99999, 100000, 500000, 1000000, 3123750}

ScoreFps == {Frac(0, 1), Frac(5, 3), Frac(15, 1), Frac(30, 1), Frac(45, 1),
             Frac(60, 1)}

ScoreSample(k, f) == [time |-> 600 * k, fps |-> f, particles |-> InitialPopulation]

ScoreHistories ==
    {<<>>} \cup {<<ScoreSample(1, f)>> : f \in ScoreFps}
           \cup {<<ScoreSample(1, f), ScoreSample(2, g)>> : f \in ScoreFps, g \in ScoreFps}

InitScore ==
    /\ canvasEl = TRUE /\ ctxRef = TRUE /\ effectRan = TRUE
    /\ isRunning = TRUE /\ showResults = FALSE
    /\ timer = 0 /\ fps = 0 /\ particleCount = 0 /\ progress = [n |-> 0, d |-> 1]
    /\ history = <<>> /\ finalScore = 0 /\ peakParticles = 0 /\ avgFps = 0
    /\ historyRef \in ScoreHistories
    /\ totalCalcsRef \in ScoreTotals
    /\ bodiesRef = <<[count |-> InitialPopulation, run |-> 1, steps |-> 1]>>
    /\ startTime = 0
    /\ endTime = TEST_DURATION_MS
    /\ lastMetricTime = 0
    /\ frameCount = 0
    /\ now = TEST_DURATION_MS
    /\ animationFrameIdRef = "stale"
    /\ rafQueue = 0
    /\ consoleErrors = 0
    /\ runId = 1
    /\ stopRequestedFor = 0
    /\ lastOp = "tick"

\* loop: if (now >= endTime) { finish(); return; }
finishCall ==
    /\ isRunning
    /\ rafQueue = 0
    /\ finish(historyRef, bodiesRef, totalCalcsRef, animationFrameIdRef, rafQueue)
    /\ lastOp' = "finished"
    /\ UNCHANGED <<canvasVars, hudVars, refVars, closureVars, now, consoleErrors,
                   runId, stopRequestedFor>>

ScoreSpec == InitScore /\ [][finishCall]_vars

-----------------------------------------------------------------------------
(* updatePhysics as a function of the population: the state is the one in   *)
(* which loop calls updatePhysics on a store of n bodies.                   *)

PhysLens == (0..60) \cup {2500, 7999, 8000, 8001, 12000, 12001, 16000, 16001, 20000}

InitPhys ==
    /\ canvasEl = TRUE /\ ctxRef = TRUE /\ effectRan = TRUE
    /\ isRunning = TRUE /\ showResults = FALSE
    /\ timer = 0 /\ fps = 0 /\ particleCount = 0 /\ progress = [n |-> 0, d |-> 1]
    /\ history = <<>> /\ finalScore = 0 /\ peakParticles = 0 /\ avgFps = 0
    /\ historyRef = <<>>
    /\ totalCalcsRef = 0
    /\ \E n \in PhysLens : bodiesRef = addParticles(<<>>, n, 1)
    /\ startTime = 0
    /\ endTime = TEST_DURATION_MS
    /\ lastMetricTime = 0
    /\ frameCount = 1
    /\ now = 0
    /\ animationFrameIdRef = "stale"
    /\ rafQueue = 0
    /\ consoleErrors = 0
    /\ runId = 1
    /\ stopRequestedFor = 0
    /\ lastOp = "started"

\* loop: const calcs = updatePhysics(0.5); totalCalcsRef.current += calcs;
physicsCall ==
    /\ isRunning
    /\ lastOp = "started"
    /\ physics(bodiesRef)
    /\ lastOp' = "physics"
    /\ UNCHANGED <<canvasVars, isRunning, showResults, hudVars, resultVars,
                   historyRef, closureVars, rafVars, now, consoleErrors, runId,
                   stopRequestedFor>>

PhysSpec == InitPhys /\ [][physicsCall]_vars

-----------------------------------------------------------------------------
(* Run controller: termination *)

\* C1: every frame callback that fires while the run is Running and reads
\* now >= endTime moves the run to Finished and leaves no frame callback
\* queued; and, frame callbacks firing, every started run reaches Finished.
C1_FinishesAtEndTime ==
    /\ [][(loop /\ isRunning /\ now' >= endTime)
            => (~isRunning' /\ showResults' /\ rafQueue' = 0)]_vars
    /\ (isRunning ~> ~isRunning)

\* a run has been finished by the tick that read now >= endTime
C1_Witness ==
    /\ lastOp = "finished"
    /\ ~isRunning /\ showResults
    /\ now >= endTime
    /\ rafQueue = 0

-----------------------------------------------------------------------------
(* Run controller: start *)

\* C2: start with the render surface not ready (canvas or context null)
\* reports an error and changes nothing else: the state stays Idle, the store,
\* the history and totalCalcs are as they were, no frame callback is queued.
C2_StartNotReady ==
    [][(startBenchmark /\ ~isRunning /\ (~canvasEl \/ ~ctxRef))
         => (/\ consoleErrors' = consoleErrors + 1
             /\ ~isRunning' /\ ~showResults'
             /\ rafQueue' = 0
             /\ UNCHANGED <<isRunning, showResults, refVars, rafVars, closureVars,
                            hudVars, resultVars, runId>>)]_vars

\* a start has been rejected for want of a context
C2_Witness ==
    /\ lastOp = "start_rejected"
    /\ ~ctxRef
    /\ consoleErrors >= 1
    /\ ~isRunning /\ ~showResults

\* C3: start while Running is a no-op (store, history, totalCalcs and end
\* time of the run in progress unchanged, no second loop queued), so at most
\* one frame callback is ever queued.
C3_StartWhileRunning ==
    /\ [](rafQueue <= 1)
    /\ [][(startBenchmark /\ isRunning)
            => UNCHANGED <<isRunning, refVars, rafVars, closureVars, runId>>]_vars

\* start was called during a run that had already sampled
C3_Witness ==
    /\ lastOp = "start_ignored"
    /\ isRunning
    /\ historyRef # <<>>
    /\ rafQueue = 1

\* C4 (as claimed): a stop request made while Running is obeyed by the next
\* frame callback at the latest: that callback leaves the run Finished.
C4_StopObeyedAtNextFrame ==
    [][(loop /\ isRunning /\ stopRequestedFor = runId) => ~isRunning']_vars

\* C5: a start from Finished clears the history, zeroes totalCalcs and leaves
\* exactly 2500 bodies in the store, all of them new.
C5_RerunResets ==
    [][(startBenchmark /\ ~isRunning /\ showResults /\ isRunning')
         => (/\ historyRef' = <<>>
             /\ totalCalcsRef' = 0
             /\ BodyCount(bodiesRef') = 2500
             /\ runId' # runId
             /\ \A k \in 1..Len(bodiesRef') :
                   bodiesRef'[k].run = runId' /\ bodiesRef'[k].steps = 0)]_vars

\* a second run has just started after a first one that sampled and grew
C5_Witness ==
    /\ lastOp = "started"
    /\ runId = 2
    /\ history # <<>>
    /\ peakParticles > 2500
    /\ historyRef = <<>>

-----------------------------------------------------------------------------
(* Body store and history within a run *)

\* C8: within a run the store is only appended to: no step of a run removes
\* or replaces a body, the population never decreases, and a tick that does
\* not sample leaves the population as it was.
C8_PopulationNeverDecreases ==
    [][(isRunning /\ runId' = runId)
         => (/\ BodyCount(bodiesRef') >= BodyCount(bodiesRef)
             /\ Len(bodiesRef') >= Len(bodiesRef)
             /\ \A k \in 1..Len(bodiesRef) :
                   /\ bodiesRef'[k].count = bodiesRef[k].count
                   /\ bodiesRef'[k].run = bodiesRef[k].run
             /\ (loop /\ ~(now' > lastMetricTime + 500)
                   => BodyCount(bodiesRef') = BodyCount(bodiesRef)))]_vars

\* a run has grown its population and integrated the grown store
C8_Witness ==
    /\ isRunning
    /\ lastOp = "tick"
    /\ Len(bodiesRef) >= 2
    /\ BodyCount(bodiesRef) > 2500

\* C9: the history is strictly increasing in time, and every step of a run
\* leaves the samples already recorded in place, unchanged.
C9_HistoryAppendOnly ==
    /\ [](\A i, j \in 1..Len(historyRef) :
             i < j => historyRef[i].time < historyRef[j].time)
    /\ [][(isRunning /\ runId' = runId)
            => (/\ Len(historyRef') >= Len(historyRef)
                /\ SubSeq(historyRef', 1, Len(historyRef)) = historyRef)]_vars

\* a run has recorded two samples
C9_Witness ==
    /\ Len(historyRef) >= 2
    /\ historyRef[1].time < historyRef[2].time

-----------------------------------------------------------------------------
(* Scoring *)

RECURSIVE DenProduct(_)
\* a common denominator of the fps values of a history
DenProduct(data) ==
    IF data = <<>> THEN 1 ELSE Head(data).fps.d * DenProduct(Tail(data))

RECURSIVE NumOver(_, _)
\* the sum of the fps values of a history, as a numerator over the denominator p
NumOver(data, p) ==
    IF data = <<>> THEN 0
    ELSE Head(data).fps.n * (p \div Head(data).fps.d) + NumOver(Tail(data), p)

\* C6: at the Finished transition finalScore is the floor of
\* (totalCalcs / 100000) * (mean fps / 60), the mean being 0 for an empty
\* history; totalCalcs = 500000 and a mean of 30 give 2.  (avgFps, the value
\* displayed, is that mean rounded to the nearest integer.)
C6_FinalScore ==
    (lastOp = "finished") =>
        LET len == Len(history)
            p == DenProduct(history)
            sum == NumOver(history, p)
        IN /\ history = historyRef
           /\ IF len = 0
              THEN avgFps = 0 /\ finalScore = 0
              ELSE /\ finalScore * 6000000 * p * len <= totalCalcsRef * sum
                   /\ totalCalcsRef * sum < (finalScore + 1) * 6000000 * p * len
                   /\ 2 * p * len * avgFps <= 2 * sum + p * len
                   /\ 2 * sum + p * len < 2 * p * len * (avgFps + 1)
           /\ (totalCalcsRef = 500000 /\ len > 0 /\ sum = 30 * p * len)
                 => finalScore = 2

\* finish() has scored 500000 evaluations at a mean of 30 fps over two samples
C6_Witness ==
    /\ lastOp = "finished"
    /\ ~isRunning
    /\ totalCalcsRef = 500000
    /\ Len(history) = 2
    /\ history[1].fps = Frac(15, 1) /\ history[2].fps = Frac(45, 1)
    /\ finalScore = 2

-----------------------------------------------------------------------------
(* Ramp rule *)

\* C7: a tick that samples grows the population by exactly 1000 if the
\* measured fps (frameCount * 1000 / (now - lastMetricTime)) is above 45, by
\* 100 if it is below 15 and by 400 otherwise, 45 and 15 included; a tick
\* that does not sample leaves the population as it was.
C7_RampRule ==
    [][loop =>
        LET frames == frameCount * 1000
            dt == now' - lastMetricTime
            grown == BodyCount(bodiesRef') - BodyCount(bodiesRef)
        IN IF now' > lastMetricTime + 500
           THEN grown = (IF frames > 45 * dt THEN 1000
                         ELSE IF frames < 15 * dt THEN 100
                         ELSE 400)
           ELSE grown = 0]_vars

\* a sample measured exactly 45 fps and 400 bodies were added
C7_Witness ==
    /\ Len(historyRef) >= 1
    /\ historyRef[1].fps = Frac(45, 1)
    /\ Len(bodiesRef) >= 2
    /\ bodiesRef[2].count = 400

-----------------------------------------------------------------------------
(* Integrator: evaluation count *)

\* ceil(n / 4000) for n > 8000, else 1
ClaimedStride(n) ==
    IF n <= 8000 THEN 1
    ELSE CHOOSE s \in 1..n : (s - 1) * 4000 < n /\ n <= s * 4000

\* the pairs (i, j), i < j < n, with j = i+1, i+1+s, i+1+2s, ...
PairsVisited(n, s) ==
    {p \in (0..(n - 1)) \X (0..(n - 1)) : p[2] > p[1] /\ (p[2] - p[1] - 1) % s = 0}

\* the number of those pairs: the sum over m = 0..n-1 of ceil(m / s)
PairsCount(n, s) ==
    IF n = 0 THEN 0
    ELSE LET q == (n - 1) \div s
             r == (n - 1) % s
         IN s * ((q * (q + 1)) \div 2) + r * (q + 1)

\* C10: one integrator call on n bodies adds to totalCalcs exactly the number
\* of pairs (i, j) with j = i+1, i+1+s, ... < n, s being 1 for n <= 8000 and
\* ceil(n/4000) above (1 at n = 8000, 4 at n = 16000); for s > 1 that is not
\* n*(n-1)/2.
C10_EvaluationCount ==
    (lastOp = "physics") =>
        LET n == BodyCount(bodiesRef)
            s == ClaimedStride(n)
        IN /\ totalCalcsRef = PairsCount(n, s)
           /\ n <= 60 => totalCalcsRef = Cardinality(PairsVisited(n, s))
           /\ n = 8000 => s = 1 /\ totalCalcsRef = 31996000
           /\ n = 16000 => s = 4
           /\ s > 1 => totalCalcsRef # (n * (n - 1)) \div 2
           /\ \A k \in 1..Len(bodiesRef) : bodiesRef[k].steps = 1

\* the integrator has been called on 16000 bodies, with stride 4
C10_Witness ==
    /\ lastOp = "physics"
    /\ BodyCount(bodiesRef) = 16000
    /\ totalCalcsRef = 32004000

-----------------------------------------------------------------------------
(* Sampling cadence over a whole run *)

\* C11: a sample is recorded on every tick at which a full sampling interval
\* has elapsed since the previous sample (or since start): the run of 1000 ms
\* whose frames come exactly one and two sampling intervals after start (the
\* only way to finish at start + 1000 with the frame gaps of Deltas) is
\* Finished with exactly 2 samples, and its average and score are those of the
\* recorded samples.
C11_TwoSamplesInTwoIntervals ==
    (lastOp = "finished" /\ now = startTime + 2 * SampleIntervalMs) =>
        /\ ~isRunning /\ showResults
        /\ Len(history) = 2
        /\ avgFps = MathRound(finishAvg(history))
        /\ finalScore = finishScore(totalCalcsRef, finishAvg(history))

-----------------------------------------------------------------------------
(* Order of the steps of a tick *)

\* C12 as stated: integration runs on every frame, before the termination
\* check, so every body in the store at Finished has been integrated at least
\* once.
C12_AllIntegratedAtFinish ==
    (lastOp = "finished") =>
        \A k \in 1..Len(bodiesRef) : bodiesRef[k].steps >= 1

\* C12: a tick does the sampling check first (a sample and a ramp of 100, 400
\* or 1000 bodies when more than the interval has elapsed), then the
\* termination check, and only when the run is not over one integration step,
\* over the store as grown by this tick, whose evaluation count is added to
\* totalCalcs; that step runs whether or not the tick sampled.  The tick that
\* ends the run integrates nothing: the bodies its ramp added are in the store
\* at Finished with no integration step.
C12_TickOrder ==
    /\ [][(loop /\ isRunning) =>
            LET due == now' - lastMetricTime > 500
                over == now' >= endTime
                n0 == Len(bodiesRef)
                n1 == Len(bodiesRef')
                int == IF over THEN 0 ELSE 1
                pop == BodyCount(bodiesRef')
            IN /\ Len(historyRef') = Len(historyRef) + (IF due THEN 1 ELSE 0)
               /\ n1 = n0 + (IF due THEN 1 ELSE 0)
               /\ due => /\ bodiesRef'[n1].count \in {100, 400, 1000}
                         /\ bodiesRef'[n1].steps = int
               /\ \A k \in 1..n0 :
                      /\ bodiesRef'[k].count = bodiesRef[k].count
                      /\ bodiesRef'[k].steps = bodiesRef[k].steps + int
               /\ totalCalcsRef' = totalCalcsRef
                      + (IF over THEN 0 ELSE PairsCount(pop, ClaimedStride(pop)))
               /\ isRunning' = ~over
       ]_vars
    /\ []((lastOp = "finished" /\ lastMetricTime = now) =>
              bodiesRef[Len(bodiesRef)].steps = 0)

\* Finished after ticks at 300, 600 (sample), 900 and 1200 (sample, end): the
\* first two batches were integrated, the batch of the last tick was not
C12_Witness ==
    /\ lastOp = "finished"
    /\ Len(bodiesRef) >= 3
    /\ bodiesRef[1].steps >= 3
    /\ bodiesRef[2].steps >= 1
    /\ bodiesRef[Len(bodiesRef)].steps = 0
    /\ totalCalcsRef > 0

====
